---- MODULE Spec2Model ----
(* HD44780 4-bit bus protocol engine (crate hd44780-nb): LcdPins::state,      *)
(* LcdPins::write and LcdPins::pulse_enable, one step per pin or bus          *)
(* operation, with the status register decoding of utils.rs.                  *)
EXTENDS Integers, Sequences, FiniteSets, TLC

(* ---------------------------------------------------------------------- *)
(* Bounds                                                                   *)
(* ---------------------------------------------------------------------- *)

\* Number of distinct error values a pin or the bus can raise.
MaxErr == 2

ErrVals == 1..MaxErr

\* Longest string handed to write_str.
MaxLen == 2

(* ---------------------------------------------------------------------- *)
(* Data                                                                     *)
(* ---------------------------------------------------------------------- *)

PinState == {"Low", "High"}

\* u8
Byte == 0..255

\* [PinState; 4]
BusLevels == [1..4 -> PinState]

Clear_compile == 1

ReturnHome_compile == 2

CompiledInstr == {Clear_compile, ReturnHome_compile}

Instr(c) == [kind |-> "Instr", datum |-> c]

Data(b) == [kind |-> "Data", datum |-> b]

Deliverable == {Instr(c) : c \in CompiledInstr} \cup {Data(b) : b \in Byte}

NoDeliverable == [kind |-> "None", datum |-> 0]

\* Results of calls.  tag is "None" (no result yet), "Ok", "Err" (LcdError),
\* "WouldBlock" (nb::Error::WouldBlock) or "Other" (nb::Error::Other(LcdError)).
Res(tag, line, val) == [tag |-> tag, line |-> line, val |-> val]

None == Res("None", "", 0)

Ok(v) == Res("Ok", "", v)

WouldBlock == Res("WouldBlock", "", 0)

RegisterSelectionError(e) == Res("Err", "RegisterSelectionError", e)

\* the read/write failure mapped to the register-select variant
ReadWriteError_as_rs(e) == Res("Err", "RegisterSelectionError", e)

ReadWriteError(e) == Res("Err", "ReadWriteError", e)

\* the enable failure mapped to the bus variant
EnableError_as_bus(e) == Res("Err", "DataBusError", e)

EnableError(e) == Res("Err", "EnableError", e)

DataBusError(e) == Res("Err", "DataBusError", e)

\* impl From<E> for nb::Error<E>, applied by `?` in write()
Other(r) == Res("Other", r.line, r.val)

\* One operation on a line as the collaborator sees it.
Op(name, arg, ok) == [op |-> name, arg |-> arg, ok |-> ok]

DelayOp == Op("delay_us", <<>>, TRUE)

\* Outcomes of set_high / set_low on a pin whose level is cur: it succeeds and
\* the line takes the target level, or it fails with some error value and the
\* line is left at either level.
PinOutcomes(cur, target) ==
    {[ok |-> TRUE, level |-> target, err |-> 0]}
    \cup {[ok |-> FALSE, level |-> l, err |-> e] : l \in {cur, target}, e \in ErrVals}

\* Outcomes of read_pins_now: four levels chosen by the controller, or an error.
ReadOutcomes ==
    {[ok |-> TRUE, levels |-> lv, err |-> 0] : lv \in BusLevels}
    \cup {[ok |-> FALSE, levels |-> <<>>, err |-> e] : e \in ErrVals}

\* Outcomes of write_pins_now.
WriteOutcomes ==
    {[ok |-> TRUE, err |-> 0]} \cup {[ok |-> FALSE, err |-> e] : e \in ErrVals}

(* ---------------------------------------------------------------------- *)
(* Pure functions                                                           *)
(* ---------------------------------------------------------------------- *)

\* v >> n on u8
shr(v, n) == v \div (2 ^ n)

RECURSIVE BitAnd(_, _)
\* a & b
BitAnd(a, b) ==
    IF a = 0 \/ b = 0 THEN 0
    ELSE (a % 2) * (b % 2) + 2 * BitAnd(a \div 2, b \div 2)

\* State::busy
busy(v) == shr(v, 7) > 0

\* State::addr with the mask leaving bit 7 in
addr_unmasked(v) == BitAnd(v, 255)

\* State::addr
addr(v) == BitAnd(v, 127)

\* view_bits::<Msb0>(): the most significant bit first
view_bits_msb0(d) == [i \in 1..8 |-> (d \div (2 ^ (8 - i))) % 2 = 1]

\* datum.view_bits::<Lsb0>(): bit i of the byte at index i (here index i+1)
view_bits(d) == [i \in 1..8 |-> (d \div (2 ^ (i - 1))) % 2 = 1]

\* slice.split_at(mid)
split_at(s, mid) == <<SubSeq(s, 1, mid), SubSeq(s, mid + 1, Len(s))>>

\* the closure of write() with its two arms exchanged
to_pin_state_inverted(b) == IF b THEN "Low" ELSE "High"

\* the closure mapping a bit to a PinState in write()
to_pin_state(b) == IF b THEN "High" ELSE "Low"

\* the closure mapping a PinState to a bit in state()
to_bit(s) == s = "High"

\* the iterator write() hands to write_pins_now for one half
nibble_levels(bits) == [i \in 1..Len(bits) |-> to_pin_state(bits[i])]

\* the chain taken in the other order
chain_upper_first(lower, upper) == upper \o lower

\* lower_bits.into_iter().chain(upper_bits.into_iter())
chain(lower, upper) == lower \o upper

\* bitarr!(u8, Lsb0; 0; 8) zipped with the levels: bit i set from level i
zip_set(levels) == [i \in 1..8 |-> IF i <= Len(levels) THEN to_bit(levels[i]) ELSE FALSE]

RECURSIVE load_from(_, _)
load_from(bits, i) ==
    IF i > Len(bits) THEN 0
    ELSE (IF bits[i] THEN 2 ^ (i - 1) ELSE 0) + load_from(bits, i + 1)

\* bits.load::<u8>() of an Lsb0 array
load(bits) == load_from(bits, 1)

\* the value state() builds from its two bus reads
assemble(lower, upper) == load(zip_set(chain(lower, upper)))

(* ---------------------------------------------------------------------- *)
(* State                                                                    *)
(* ---------------------------------------------------------------------- *)

VARIABLES
    pc,                  \* position of the engine
    call,                \* the public call in progress or last returned
    deliverable,         \* argument of write()
    register_selection,  \* level of the RS line
    read_write,          \* level of the RW line
    enable,              \* level of the E line
    lower_bits,          \* state(): first bus read
    upper_bits,          \* state(): second bus read
    site,                \* call site of the pulse_enable in progress
    pulse_res,           \* result of pulse_enable
    state_res,           \* result of LcdPins::state
    result,              \* result of the public call
    decoded,             \* busy and addr as State's Debug formatting reads them
    raised,              \* the error an operation raised in this call
    log,                 \* operations performed in this call, in order
    entry,               \* RS and RW levels when the call began
    adapter,             \* the uWrite method in progress
    str,                 \* the bytes the uWrite method has to deliver
    idx,                 \* position in str of the byte being delivered
    uresult,             \* result of the uWrite method
    wire,                \* bus writes performed so far for the uWrite method
    free,                \* some status poll of the uWrite method said not busy
    prev                 \* how the previous state() or write() call ended

\* the byte-stream adapter and what is remembered about earlier calls
uvars == <<adapter, str, idx, uresult, wire, free, prev>>

vars == <<pc, call, deliverable, register_selection, read_write, enable,
          lower_bits, upper_bits, site, pulse_res, state_res, result,
          decoded, raised, log, entry, adapter, str, idx, uresult, wire,
          free, prev>>

NoRaise == [line |-> "", val |-> 0]

NoDecoded == [busy |-> FALSE, addr |-> 0, set |-> FALSE]

Raise(line, e) == [line |-> line, val |-> e]

\* LcdPins::new: the lines are at whatever level the hardware has them.
Init ==
    /\ pc = "idle"
    /\ call = "none"
    /\ deliverable = NoDeliverable
    /\ register_selection \in PinState
    /\ read_write \in PinState
    /\ enable \in PinState
    /\ lower_bits = <<>>
    /\ upper_bits = <<>>
    /\ site = "none"
    /\ pulse_res = None
    /\ state_res = None
    /\ result = None
    /\ decoded = NoDecoded
    /\ raised = NoRaise
    /\ log = <<>>
    /\ entry = <<register_selection, read_write>>
    /\ adapter = "none"
    /\ str = <<>>
    /\ idx = 0
    /\ uresult = None
    /\ wire = <<>>
    /\ free = FALSE
    /\ prev = "none"

\* locals of a fresh call
Fresh ==
    /\ lower_bits' = <<>>
    /\ upper_bits' = <<>>
    /\ site' = "none"
    /\ pulse_res' = None
    /\ state_res' = None
    /\ result' = None
    /\ decoded' = NoDecoded
    /\ raised' = NoRaise
    /\ log' = <<>>
    /\ entry' = <<register_selection, read_write>>

(* ---------------------------------------------------------------------- *)
(* Lcd::state / Lcd::write: entry points                                    *)
(* ---------------------------------------------------------------------- *)

Lcd_state ==
    /\ pc = "idle"
    /\ pc' = "state_rs"
    /\ call' = "state"
    /\ UNCHANGED <<deliverable, register_selection, read_write, enable,
                   lower_bits, upper_bits, site, pulse_res, state_res, result,
                   decoded, raised, log, entry>>
    /\ UNCHANGED uvars

\* Lcd::write called with one of the deliverables of D
Lcd_write_of(D) ==
    /\ pc = "idle"
    /\ \E d \in D : deliverable' = d
    /\ pc' = "state_rs"
    /\ call' = "write"
    /\ UNCHANGED <<register_selection, read_write, enable,
                   lower_bits, upper_bits, site, pulse_res, state_res, result,
                   decoded, raised, log, entry>>
    /\ UNCHANGED uvars

Lcd_write == Lcd_write_of(Deliverable)

\* how a call ended: "ok", "would_block" or "error"
Outcome(r) ==
    CASE r.tag = "Ok" -> "ok"
      [] r.tag = "WouldBlock" -> "would_block"
      [] r.tag \in {"Err", "Other"} -> "error"
      [] OTHER -> "none"

\* The caller of state() or write() takes the returned value and remembers p
\* about it; the temporaries of the call are gone and the engine, still owning
\* its lines, can be called again.
take(p) ==
    /\ pc = "returned"
    /\ adapter = "none"
    /\ pc' = "idle"
    /\ call' = "none"
    /\ deliverable' = NoDeliverable
    /\ Fresh
    /\ prev' = p
    /\ UNCHANGED <<register_selection, read_write, enable,
                   adapter, str, idx, uresult, wire, free>>

\* the caller keeps nothing of the call
caller_take == take(prev)

\* the caller remembers how the call ended
caller_take_noting == take(Outcome(result))

(* ---------------------------------------------------------------------- *)
(* LcdPins::pulse_enable                                                    *)
(* ---------------------------------------------------------------------- *)

pulse_enable_set_high ==
    /\ pc = "pulse_high"
    /\ \E o \in PinOutcomes(enable, "High") :
        /\ enable' = o.level
        /\ IF o.ok
           THEN /\ log' = log \o <<Op("enable", <<"High">>, TRUE), DelayOp>>
                /\ pc' = "pulse_low"
                /\ UNCHANGED <<pulse_res, raised>>
           ELSE /\ log' = Append(log, Op("enable", <<"High">>, FALSE))
                /\ raised' = Raise("enable", o.err)
                /\ pulse_res' = Res("Err", "", o.err)
                /\ pc' = "pulse_ret"
    /\ UNCHANGED <<call, deliverable, register_selection, read_write,
                   lower_bits, upper_bits, site, state_res, result, decoded, entry>>
    /\ UNCHANGED uvars

\* pulse_enable without its set_low: it returns Ok with the line still high
pulse_enable_set_low_skipped ==
    /\ pc = "pulse_low"
    /\ log' = Append(log, DelayOp)
    /\ pulse_res' = Ok(0)
    /\ pc' = "pulse_ret"
    /\ UNCHANGED <<call, deliverable, register_selection, read_write, enable,
                   lower_bits, upper_bits, site, state_res, result, decoded,
                   raised, entry>>
    /\ UNCHANGED uvars

pulse_enable_set_low ==
    /\ pc = "pulse_low"
    /\ \E o \in PinOutcomes(enable, "Low") :
        /\ enable' = o.level
        /\ IF o.ok
           THEN /\ log' = log \o <<Op("enable", <<"Low">>, TRUE), DelayOp>>
                /\ pulse_res' = Ok(0)
                /\ UNCHANGED raised
           ELSE /\ log' = Append(log, Op("enable", <<"Low">>, FALSE))
                /\ raised' = Raise("enable", o.err)
                /\ pulse_res' = Res("Err", "", o.err)
    /\ pc' = "pulse_ret"
    /\ UNCHANGED <<call, deliverable, register_selection, read_write,
                   lower_bits, upper_bits, site, state_res, result, decoded, entry>>
    /\ UNCHANGED uvars

(* ---------------------------------------------------------------------- *)
(* LcdPins::state                                                           *)
(* ---------------------------------------------------------------------- *)

\* state() taking register-select to be low already: no set_low
state_register_selection_skipped ==
    /\ pc = "state_rs"
    /\ pc' = "state_rw"
    /\ UNCHANGED <<call, deliverable, register_selection, read_write, enable,
                   lower_bits, upper_bits, site, pulse_res, state_res, result,
                   decoded, raised, log, entry>>
    /\ UNCHANGED uvars

state_register_selection ==
    /\ pc = "state_rs"
    /\ \E o \in PinOutcomes(register_selection, "Low") :
        /\ register_selection' = o.level
        /\ log' = Append(log, Op("register_selection", <<"Low">>, o.ok))
        /\ IF o.ok
           THEN /\ pc' = "state_rw"
                /\ UNCHANGED <<raised, state_res>>
           ELSE /\ raised' = Raise("register_selection", o.err)
                /\ state_res' = RegisterSelectionError(o.err)
                /\ pc' = "state_ret"
    /\ UNCHANGED <<call, deliverable, read_write, enable, lower_bits, upper_bits,
                   site, pulse_res, result, decoded, entry>>
    /\ UNCHANGED uvars

\* state() reading the lower nibble without the pulse before it
state_read_write_no_pulse ==
    /\ pc = "state_rw"
    /\ \E o \in PinOutcomes(read_write, "High") :
        /\ read_write' = o.level
        /\ log' = Append(log, Op("read_write", <<"High">>, o.ok))
        /\ IF o.ok
           THEN /\ pc' = "state_read1"
                /\ UNCHANGED <<raised, state_res>>
           ELSE /\ raised' = Raise("read_write", o.err)
                /\ state_res' = ReadWriteError(o.err)
                /\ pc' = "state_ret"
    /\ UNCHANGED <<call, deliverable, register_selection, enable, lower_bits,
                   upper_bits, site, pulse_res, result, decoded, entry>>
    /\ UNCHANGED uvars

state_read_write ==
    /\ pc = "state_rw"
    /\ \E o \in PinOutcomes(read_write, "High") :
        /\ read_write' = o.level
        /\ log' = Append(log, Op("read_write", <<"High">>, o.ok))
        /\ IF o.ok
           THEN /\ pc' = "pulse_high"
                /\ site' = "state1"
                /\ UNCHANGED <<raised, state_res>>
           ELSE /\ raised' = Raise("read_write", o.err)
                /\ state_res' = ReadWriteError(o.err)
                /\ pc' = "state_ret"
                /\ UNCHANGED site
    /\ UNCHANGED <<call, deliverable, register_selection, enable, lower_bits,
                   upper_bits, pulse_res, result, decoded, entry>>
    /\ UNCHANGED uvars

\* the `.map_err(EnableError)?` after each of state()'s two pulses
state_pulse_enable ==
    /\ pc = "pulse_ret"
    /\ site \in {"state1", "state2"}
    /\ IF pulse_res.tag = "Ok"
       THEN /\ pc' = IF site = "state1" THEN "state_read1" ELSE "state_read2"
            /\ UNCHANGED state_res
       ELSE /\ state_res' = EnableError(pulse_res.val)
            /\ pc' = "state_ret"
    /\ site' = "none"
    /\ pulse_res' = None
    /\ UNCHANGED <<call, deliverable, register_selection, read_write, enable,
                   lower_bits, upper_bits, result, decoded, raised, log, entry>>
    /\ UNCHANGED uvars

state_read_lower ==
    /\ pc = "state_read1"
    /\ \E o \in ReadOutcomes :
        /\ log' = Append(log, Op("read_pins_now", <<>>, o.ok))
        /\ IF o.ok
           THEN /\ lower_bits' = o.levels
                /\ pc' = "pulse_high"
                /\ site' = "state2"
                /\ UNCHANGED <<raised, state_res>>
           ELSE /\ raised' = Raise("data_bus", o.err)
                /\ state_res' = DataBusError(o.err)
                /\ pc' = "state_ret"
                /\ UNCHANGED <<lower_bits, site>>
    /\ UNCHANGED <<call, deliverable, register_selection, read_write, enable,
                   upper_bits, pulse_res, result, decoded, entry>>
    /\ UNCHANGED uvars

\* the second read, the assembly of the eight bits and Ok(State(..))
state_read_upper ==
    /\ pc = "state_read2"
    /\ \E o \in ReadOutcomes :
        /\ log' = Append(log, Op("read_pins_now", <<>>, o.ok))
        /\ IF o.ok
           THEN /\ upper_bits' = o.levels
                /\ state_res' = Ok(assemble(lower_bits, o.levels))
                /\ UNCHANGED raised
           ELSE /\ raised' = Raise("data_bus", o.err)
                /\ state_res' = DataBusError(o.err)
                /\ UNCHANGED upper_bits
    /\ pc' = "state_ret"
    /\ UNCHANGED <<call, deliverable, register_selection, read_write, enable,
                   lower_bits, site, pulse_res, result, decoded, entry>>
    /\ UNCHANGED uvars

\* Lcd::state hands the result of LcdPins::state to its caller
state_return ==
    /\ pc = "state_ret"
    /\ call = "state"
    /\ result' = state_res
    /\ pc' = "returned"
    /\ UNCHANGED <<call, deliverable, register_selection, read_write, enable,
                   lower_bits, upper_bits, site, pulse_res, state_res, decoded,
                   raised, log, entry>>
    /\ UNCHANGED uvars

\* <State as Debug>::fmt on a status the caller got back
State_fmt ==
    /\ pc = "returned"
    /\ call = "state"
    /\ result.tag = "Ok"
    /\ ~decoded.set
    /\ decoded' = [busy |-> busy(result.val), addr |-> addr(result.val), set |-> TRUE]
    /\ UNCHANGED <<pc, call, deliverable, register_selection, read_write, enable,
                   lower_bits, upper_bits, site, pulse_res, state_res, result,
                   raised, log, entry>>
    /\ UNCHANGED uvars

(* ---------------------------------------------------------------------- *)
(* LcdPins::write                                                           *)
(* ---------------------------------------------------------------------- *)

\* write() without the test of the busy flag: it goes on to the data phase
write_poll_ignores_busy ==
    /\ pc = "state_ret"
    /\ call = "write"
    /\ IF state_res.tag # "Ok"
       THEN /\ result' = Other(state_res)
            /\ pc' = "returned"
       ELSE /\ pc' = "write_rs"
            /\ UNCHANGED result
    /\ lower_bits' = <<>>
    /\ upper_bits' = <<>>
    /\ state_res' = None
    /\ UNCHANGED <<call, deliverable, register_selection, read_write, enable,
                   site, pulse_res, decoded, raised, log, entry>>
    /\ UNCHANGED uvars

\* write() looping on the busy flag itself: it polls again instead of returning
write_poll_spins ==
    /\ pc = "state_ret"
    /\ call = "write"
    /\ IF state_res.tag # "Ok"
       THEN /\ result' = Other(state_res)
            /\ pc' = "returned"
       ELSE IF busy(state_res.val)
       THEN /\ pc' = "state_rs"
            /\ UNCHANGED result
       ELSE /\ pc' = "write_rs"
            /\ UNCHANGED result
    /\ lower_bits' = <<>>
    /\ upper_bits' = <<>>
    /\ state_res' = None
    /\ UNCHANGED <<call, deliverable, register_selection, read_write, enable,
                   site, pulse_res, decoded, raised, log, entry>>
    /\ UNCHANGED uvars

\* `if self.state(delay)?.busy() { Err(WouldBlock) } else { .. }`
write_poll ==
    /\ pc = "state_ret"
    /\ call = "write"
    /\ IF state_res.tag # "Ok"
       THEN /\ result' = Other(state_res)
            /\ pc' = "returned"
       ELSE IF busy(state_res.val)
       THEN /\ result' = WouldBlock
            /\ pc' = "returned"
       ELSE /\ pc' = "write_rs"
            /\ UNCHANGED result
    /\ lower_bits' = <<>>
    /\ upper_bits' = <<>>
    /\ state_res' = None
    /\ UNCHANGED <<call, deliverable, register_selection, read_write, enable,
                   site, pulse_res, decoded, raised, log, entry>>
    /\ UNCHANGED uvars

\* the match on the deliverable with its two arms exchanged
select_level_swapped(d) == IF d.kind = "Instr" THEN "High" ELSE "Low"

\* the level the match on the deliverable drives on register-select
select_level(d) == IF d.kind = "Instr" THEN "Low" ELSE "High"

write_register_selection ==
    /\ pc = "write_rs"
    /\ \E o \in PinOutcomes(register_selection, select_level(deliverable)) :
        /\ register_selection' = o.level
        /\ log' = Append(log, Op("register_selection", <<select_level(deliverable)>>, o.ok))
        /\ IF o.ok
           THEN /\ pc' = "write_rw"
                /\ UNCHANGED <<raised, result>>
           ELSE /\ raised' = Raise("register_selection", o.err)
                /\ result' = Other(RegisterSelectionError(o.err))
                /\ pc' = "returned"
    /\ UNCHANGED <<call, deliverable, read_write, enable, lower_bits, upper_bits,
                   site, pulse_res, state_res, decoded, entry>>
    /\ UNCHANGED uvars

\* write() taking read/write to be low already: no set_low before the data
write_read_write_assumed ==
    /\ pc = "write_rw"
    /\ pc' = "write_bus1"
    /\ UNCHANGED <<call, deliverable, register_selection, read_write, enable,
                   lower_bits, upper_bits, site, pulse_res, state_res, result,
                   decoded, raised, log, entry>>
    /\ UNCHANGED uvars

write_read_write ==
    /\ pc = "write_rw"
    /\ \E o \in PinOutcomes(read_write, "Low") :
        /\ read_write' = o.level
        /\ log' = Append(log, Op("read_write", <<"Low">>, o.ok))
        /\ IF o.ok
           THEN /\ pc' = "write_bus1"
                /\ UNCHANGED <<raised, result>>
           ELSE /\ raised' = Raise("read_write", o.err)
                /\ result' = Other(ReadWriteError(o.err))
                /\ pc' = "returned"
    /\ UNCHANGED <<call, deliverable, register_selection, enable, lower_bits,
                   upper_bits, site, pulse_res, state_res, decoded, entry>>
    /\ UNCHANGED uvars

\* the two halves handed to the bus in the other order
write_halves_upper_first(d) ==
    LET halves == split_at(view_bits(d.datum), 4)
    IN  <<nibble_levels(halves[2]), nibble_levels(halves[1])>>

\* the two halves of the datum, as the levels handed to write_pins_now
write_halves(d) ==
    LET halves == split_at(view_bits(d.datum), 4)
    IN  <<nibble_levels(halves[1]), nibble_levels(halves[2])>>

write_bus_lower ==
    /\ pc = "write_bus1"
    /\ \E o \in WriteOutcomes :
        /\ log' = Append(log, Op("write_pins_now", write_halves(deliverable)[1], o.ok))
        /\ IF o.ok
           THEN /\ pc' = "pulse_high"
                /\ site' = "write1"
                /\ UNCHANGED <<raised, result>>
           ELSE /\ raised' = Raise("data_bus", o.err)
                /\ result' = Other(DataBusError(o.err))
                /\ pc' = "returned"
                /\ UNCHANGED site
    /\ UNCHANGED <<call, deliverable, register_selection, read_write, enable,
                   lower_bits, upper_bits, pulse_res, state_res, decoded, entry>>
    /\ UNCHANGED uvars

write_bus_upper ==
    /\ pc = "write_bus2"
    /\ \E o \in WriteOutcomes :
        /\ log' = Append(log, Op("write_pins_now", write_halves(deliverable)[2], o.ok))
        /\ IF o.ok
           THEN /\ pc' = "pulse_high"
                /\ site' = "write2"
                /\ UNCHANGED <<raised, result>>
           ELSE /\ raised' = Raise("data_bus", o.err)
                /\ result' = Other(DataBusError(o.err))
                /\ pc' = "returned"
                /\ UNCHANGED site
    /\ UNCHANGED <<call, deliverable, register_selection, read_write, enable,
                   lower_bits, upper_bits, pulse_res, state_res, decoded, entry>>
    /\ UNCHANGED uvars

\* write() polling the status again between the two nibbles
write_pulse_enable_repolls ==
    /\ pc = "pulse_ret"
    /\ site \in {"write1", "write2"}
    /\ IF pulse_res.tag = "Ok"
       THEN IF site = "write1"
            THEN /\ pc' = "state_rs"
                 /\ UNCHANGED result
            ELSE /\ pc' = "returned"
                 /\ result' = Ok(0)
       ELSE /\ result' = Other(EnableError(pulse_res.val))
            /\ pc' = "returned"
    /\ site' = "none"
    /\ pulse_res' = None
    /\ UNCHANGED <<call, deliverable, register_selection, read_write, enable,
                   lower_bits, upper_bits, state_res, decoded, raised, log, entry>>
    /\ UNCHANGED uvars

\* the `.map_err(EnableError)?` after each of write()'s two pulses, and Ok(())
write_pulse_enable ==
    /\ pc = "pulse_ret"
    /\ site \in {"write1", "write2"}
    /\ IF pulse_res.tag = "Ok"
       THEN IF site = "write1"
            THEN /\ pc' = "write_bus2"
                 /\ UNCHANGED result
            ELSE /\ pc' = "returned"
                 /\ result' = Ok(0)
       ELSE /\ result' = Other(EnableError(pulse_res.val))
            /\ pc' = "returned"
    /\ site' = "none"
    /\ pulse_res' = None
    /\ UNCHANGED <<call, deliverable, register_selection, read_write, enable,
                   lower_bits, upper_bits, state_res, decoded, raised, log, entry>>
    /\ UNCHANGED uvars

(* ---------------------------------------------------------------------- *)
(* uWrite for Lcd: write_char and write_str                                 *)
(* ---------------------------------------------------------------------- *)

\* characters handed to write_char: 'A' and U+0141, whose low byte is 0x41
Chars == {65, 321}

\* bytes of the strings handed to write_str: 'A' and 'Z'
StrBytes == {65, 90}

\* the strings handed to write_str
Strs == UNION {[1..n -> StrBytes] : n \in 0..MaxLen}

\* deliverables handed to Lcd::write directly
SampleDeliverables == {Instr(Clear_compile), Data(65), Data(180)}

\* c as u8
as_u8(c) == c % 256

\* the levels of the bus writes among the operations l, in order
bus_writes_of(l) ==
    LET w == SelectSeq(l, LAMBDA o : o.op = "write_pins_now")
    IN  [i \in 1..Len(w) |-> w[i].arg]

\* a poll among the operations l said not busy: write() went on to select
\* the register
free_poll_in(l) == Len(SelectSeq(l, LAMBDA o : o.op = "register_selection")) >= 2

\* nb::block! hands the LcdError inside nb::Error::Other to its caller
block_err(r) == Res("Err", r.line, r.val)

\* the adapter calls self.write(Deliverable::Data(b))
adapter_write(b) ==
    /\ pc' = "state_rs"
    /\ call' = "write"
    /\ deliverable' = Data(b)
    /\ lower_bits' = <<>>
    /\ upper_bits' = <<>>
    /\ site' = "none"
    /\ pulse_res' = None
    /\ state_res' = None
    /\ result' = None
    /\ decoded' = NoDecoded
    /\ raised' = NoRaise
    /\ log' = <<>>
    /\ entry' = <<register_selection, read_write>>
    /\ UNCHANGED <<register_selection, read_write, enable>>

\* the adapter returns to its caller; the last write() stays as it ended
adapter_return(r) ==
    /\ pc' = "uret"
    /\ uresult' = r
    /\ UNCHANGED <<call, deliverable, register_selection, read_write, enable,
                   lower_bits, upper_bits, site, pulse_res, state_res, result,
                   decoded, raised, log, entry>>

\* write_char(c): self.write(Deliverable::Data(c as u8))
uWrite_write_char ==
    /\ pc = "idle"
    /\ \E c \in Chars :
        /\ str' = <<as_u8(c)>>
        /\ adapter_write(as_u8(c))
    /\ adapter' = "write_char"
    /\ idx' = 1
    /\ UNCHANGED <<uresult, wire, free, prev>>

\* write_char returns what write() returned
write_char_return ==
    /\ pc = "returned"
    /\ adapter = "write_char"
    /\ adapter_return(result)
    /\ wire' = wire \o bus_writes_of(log)
    /\ free' = (free \/ free_poll_in(log))
    /\ prev' = Outcome(result)
    /\ UNCHANGED <<adapter, str, idx>>

\* write_str(s): the first byte of s.bytes() goes to write(), or there is none
uWrite_write_str ==
    /\ pc = "idle"
    /\ \E s \in Strs :
        /\ str' = s
        /\ IF s = <<>>
           THEN /\ idx' = 0
                /\ adapter_return(Ok(0))
           ELSE /\ idx' = 1
                /\ adapter_write(s[1])
                /\ UNCHANGED uresult
    /\ adapter' = "write_str"
    /\ UNCHANGED <<wire, free, prev>>

\* write_str without nb::block!: a not-ready byte is passed over like a
\* written one
write_str_block_no_retry ==
    /\ pc = "returned"
    /\ adapter = "write_str"
    /\ wire' = wire \o bus_writes_of(log)
    /\ free' = (free \/ free_poll_in(log))
    /\ prev' = Outcome(result)
    /\ IF result.tag = "Other"
       THEN /\ adapter_return(Other(block_err(result)))
            /\ UNCHANGED idx
       ELSE IF idx < Len(str)
       THEN /\ adapter_write(str[idx + 1])
            /\ idx' = idx + 1
            /\ UNCHANGED uresult
       ELSE /\ adapter_return(Ok(0))
            /\ UNCHANGED idx
    /\ UNCHANGED <<adapter, str>>

\* write_str with `?` in place of nb::block!: not-ready ends write_str
write_str_block_gives_up ==
    /\ pc = "returned"
    /\ adapter = "write_str"
    /\ wire' = wire \o bus_writes_of(log)
    /\ free' = (free \/ free_poll_in(log))
    /\ prev' = Outcome(result)
    /\ IF result.tag = "WouldBlock"
       THEN /\ adapter_return(WouldBlock)
            /\ UNCHANGED idx
       ELSE IF result.tag = "Other"
       THEN /\ adapter_return(Other(block_err(result)))
            /\ UNCHANGED idx
       ELSE IF idx < Len(str)
       THEN /\ adapter_write(str[idx + 1])
            /\ idx' = idx + 1
            /\ UNCHANGED uresult
       ELSE /\ adapter_return(Ok(0))
            /\ UNCHANGED idx
    /\ UNCHANGED <<adapter, str>>

\* write_str looping on every Err: a failed byte is tried again
write_str_block_retries_errors ==
    /\ pc = "returned"
    /\ adapter = "write_str"
    /\ wire' = wire \o bus_writes_of(log)
    /\ free' = (free \/ free_poll_in(log))
    /\ prev' = Outcome(result)
    /\ IF result.tag \in {"WouldBlock", "Other"}
       THEN /\ adapter_write(str[idx])
            /\ UNCHANGED <<idx, uresult>>
       ELSE IF idx < Len(str)
       THEN /\ adapter_write(str[idx + 1])
            /\ idx' = idx + 1
            /\ UNCHANGED uresult
       ELSE /\ adapter_return(Ok(0))
            /\ UNCHANGED idx
    /\ UNCHANGED <<adapter, str>>

\* nb::block! on the result of write() inside try_for_each: not-ready calls
\* write() again for the same byte, an error ends write_str, success moves to
\* the next byte or ends write_str
write_str_block ==
    /\ pc = "returned"
    /\ adapter = "write_str"
    /\ wire' = wire \o bus_writes_of(log)
    /\ free' = (free \/ free_poll_in(log))
    /\ prev' = Outcome(result)
    /\ IF result.tag = "WouldBlock"
       THEN /\ adapter_write(str[idx])
            /\ UNCHANGED <<idx, uresult>>
       ELSE IF result.tag = "Other"
       THEN /\ adapter_return(Other(block_err(result)))
            /\ UNCHANGED idx
       ELSE IF idx < Len(str)
       THEN /\ adapter_write(str[idx + 1])
            /\ idx' = idx + 1
            /\ UNCHANGED uresult
       ELSE /\ adapter_return(Ok(0))
            /\ UNCHANGED idx
    /\ UNCHANGED <<adapter, str>>

\* The caller of write_char or write_str takes the returned value.
adapter_take ==
    /\ pc = "uret"
    /\ pc' = "idle"
    /\ call' = "none"
    /\ deliverable' = NoDeliverable
    /\ Fresh
    /\ adapter' = "none"
    /\ str' = <<>>
    /\ idx' = 0
    /\ uresult' = None
    /\ wire' = <<>>
    /\ free' = FALSE
    /\ UNCHANGED <<register_selection, read_write, enable, prev>>

\* Lcd::write called directly with a few deliverables
Lcd_write_sample == Lcd_write_of(SampleDeliverables)

(* ---------------------------------------------------------------------- *)
(* Specification                                                            *)
(* ---------------------------------------------------------------------- *)

Next ==
    \/ Lcd_state
    \/ Lcd_write
    \/ caller_take
    \/ pulse_enable_set_high
    \/ pulse_enable_set_low
    \/ state_register_selection
    \/ state_read_write
    \/ state_pulse_enable
    \/ state_read_lower
    \/ state_read_upper
    \/ state_return
    \/ State_fmt
    \/ write_poll
    \/ write_register_selection
    \/ write_read_write
    \/ write_bus_lower
    \/ write_bus_upper
    \/ write_pulse_enable

Spec == Init /\ [][Next]_vars

\* the steps the engine and the adapter take by themselves once called
Step ==
    \/ pulse_enable_set_high
    \/ pulse_enable_set_low
    \/ state_register_selection
    \/ state_read_write
    \/ state_pulse_enable
    \/ state_read_lower
    \/ state_read_upper
    \/ state_return
    \/ write_poll
    \/ write_register_selection
    \/ write_read_write
    \/ write_bus_lower
    \/ write_bus_upper
    \/ write_pulse_enable
    \/ write_char_return
    \/ write_str_block

\* state(), write(), write_char() and write_str() called in any order
NextStream ==
    \/ Lcd_state
    \/ Lcd_write_sample
    \/ caller_take_noting
    \/ uWrite_write_char
    \/ uWrite_write_str
    \/ adapter_take
    \/ pulse_enable_set_high
    \/ pulse_enable_set_low
    \/ state_register_selection
    \/ state_read_write
    \/ state_pulse_enable
    \/ state_read_lower
    \/ state_read_upper
    \/ state_return
    \/ write_poll
    \/ write_register_selection
    \/ write_read_write
    \/ write_bus_lower
    \/ write_bus_upper
    \/ write_pulse_enable
    \/ write_char_return
    \/ write_str_block

SpecStream == Init /\ [][NextStream]_vars

\* The code is synchronous: a call in progress takes its next step.
SpecStreamFair == SpecStream /\ WF_vars(Step)

(* ---------------------------------------------------------------------- *)
(* Vocabulary of the properties                                             *)
(* ---------------------------------------------------------------------- *)

IsBusWrite(o) == o.op = "write_pins_now"

IsRS(o) == o.op = "register_selection"

IsRW(o) == o.op = "read_write"

IsEnableHigh(o) == o.op = "enable" /\ o.arg = <<"High">>

IsEnableLowOk(o) == o.op = "enable" /\ o.arg = <<"Low">> /\ o.ok

IsLineOp(o) == o.op # "delay_us"

\* the operations of the call so far, delays left out
LineOps == SelectSeq(log, IsLineOp)

BusWrites == SelectSeq(log, IsBusWrite)

\* positions of the bus writes in the log
BusWriteAt == {i \in 1..Len(log) : IsBusWrite(log[i])}

FirstBusWrite == CHOOSE i \in BusWriteAt : \A j \in BusWriteAt : i <= j

\* the four levels that spell the 4-bit number n, line i carrying bit i
LevelsOf(n) == [i \in 1..4 |-> IF (n \div (2 ^ (i - 1))) % 2 = 1 THEN "High" ELSE "Low"]

\* the number four levels spell
ValueOf(lv) ==
    (IF lv[1] = "High" THEN 1 ELSE 0) + (IF lv[2] = "High" THEN 2 ELSE 0)
    + (IF lv[3] = "High" THEN 4 ELSE 0) + (IF lv[4] = "High" THEN 8 ELSE 0)

PulseOps == <<Op("enable", <<"High">>, TRUE), Op("enable", <<"Low">>, TRUE)>>

\* a status poll in which no line fails, delays left out
PollOps ==
    <<Op("register_selection", <<"Low">>, TRUE), Op("read_write", <<"High">>, TRUE)>>
    \o PulseOps \o <<Op("read_pins_now", <<>>, TRUE)>>
    \o PulseOps \o <<Op("read_pins_now", <<>>, TRUE)>>

\* the data phase of a write of byte b in which no line fails, delays left out
DataPhaseOps(b) ==
    <<Op("read_write", <<"Low">>, TRUE), Op("write_pins_now", LevelsOf(b % 16), TRUE)>>
    \o PulseOps
    \o <<Op("write_pins_now", LevelsOf(b \div 16), TRUE)>>
    \o PulseOps

\* the error variant that names a line
VariantOf(line) ==
    CASE line = "register_selection" -> "RegisterSelectionError"
      [] line = "read_write" -> "ReadWriteError"
      [] line = "enable" -> "EnableError"
      [] line = "data_bus" -> "DataBusError"
      [] OTHER -> "?"

\* write() is at the step that receives a status whose busy flag (line 3 of
\* the second bus read) is set
PolledBusy ==
    /\ pc = "state_ret"
    /\ call = "write"
    /\ state_res.tag = "Ok"
    /\ upper_bits[4] = "High"

WriteReturned == pc = "returned" /\ call = "write"

(* ---------------------------------------------------------------------- *)
(* C1                                                                       *)
(* ---------------------------------------------------------------------- *)

\* C1 as stated: a write() whose status poll reports busy returns the
\* not-ready result having performed no set operation on register-select, none
\* on read/write and no bus write, and leaves both lines at the levels they had
\* before the call.
C1_AsStated ==
    [][PolledBusy =>
          /\ pc' = "returned"
          /\ result' = WouldBlock
          /\ SelectSeq(log', IsRS) = <<>>
          /\ SelectSeq(log', IsRW) = <<>>
          /\ SelectSeq(log', IsBusWrite) = <<>>
          /\ register_selection' = entry[1]
          /\ read_write' = entry[2]]_vars

\* C1 amended: a write() whose status poll reports busy returns the not-ready
\* result having performed exactly the operations of the status poll
\* (register-select set low, read/write set high, two enable pulses, two bus
\* reads) and nothing else: no further set operation on either line and no bus
\* write.  On return register-select is low and read/write is high.
C1_BusyOnlyPolls ==
    [][PolledBusy =>
          /\ pc' = "returned"
          /\ result' = WouldBlock
          /\ log' = log
          /\ SelectSeq(log', IsLineOp) = PollOps
          /\ SelectSeq(log', IsBusWrite) = <<>>
          /\ register_selection' = "Low"
          /\ read_write' = "High"]_vars

\* a busy write() has returned, and it changed both lines
C1_Witness ==
    /\ WriteReturned
    /\ result = WouldBlock
    /\ entry = <<"High", "Low">>
    /\ register_selection = "Low"
    /\ read_write = "High"

(* ---------------------------------------------------------------------- *)
(* C2                                                                       *)
(* ---------------------------------------------------------------------- *)

ExpectedRS == IF deliverable.kind = "Instr" THEN "Low" ELSE "High"

\* C2: in a write() that reaches its first bus write, the last level driven on
\* register-select before that bus write is low for Instr and high for Data,
\* register-select is not operated again after it, and while no line fails the
\* line stays at that level until the call returns.
C2_RegisterSelectBeforeData ==
    (call = "write" /\ BusWriteAt # {}) =>
        LET w == FirstBusWrite
            rsBefore == {i \in 1..(w - 1) : IsRS(log[i])}
            last == CHOOSE i \in rsBefore : \A j \in rsBefore : j <= i
        IN  /\ rsBefore # {}
            /\ log[last].ok
            /\ log[last].arg = <<ExpectedRS>>
            /\ \A i \in w..Len(log) : ~IsRS(log[i])
            /\ raised = NoRaise => register_selection = ExpectedRS

\* a Data write has returned success, with register-select low before the call
C2_Witness ==
    /\ WriteReturned
    /\ result.tag = "Ok"
    /\ deliverable.kind = "Data"
    /\ register_selection = "High"
    /\ entry[1] = "Low"

(* ---------------------------------------------------------------------- *)
(* C3                                                                       *)
(* ---------------------------------------------------------------------- *)

\* C3: a write() of byte b that finds the controller not busy with no line
\* failing returns success, and after the status poll and the register select
\* it performs exactly: read/write low, bus write of the low nibble of b, enable
\* high, enable low, bus write of the high nibble of b, enable high, enable low.
C3_DataPhaseSequence ==
    (WriteReturned /\ raised = NoRaise /\ result # WouldBlock) =>
        /\ result = Ok(0)
        /\ LineOps = PollOps
                     \o <<Op("register_selection", <<ExpectedRS>>, TRUE)>>
                     \o DataPhaseOps(deliverable.datum)

\* a byte whose two nibbles differ has been written
C3_Witness ==
    /\ WriteReturned
    /\ result = Ok(0)
    /\ deliverable = Data(164)
    /\ BusWrites[1].arg = <<"Low", "Low", "High", "Low">>
    /\ BusWrites[2].arg = <<"Low", "High", "Low", "High">>

(* ---------------------------------------------------------------------- *)
(* C4                                                                       *)
(* ---------------------------------------------------------------------- *)

EnablePulses == Len(SelectSeq(log, IsEnableHigh))

InstrWritten == WriteReturned /\ deliverable.kind = "Instr" /\ result.tag = "Ok"

\* C4 as stated: a successful write() of an instruction issues exactly two
\* enable pulses during the whole call, every register-select operation drives
\* the line low, and the nibbles are written low then high.
C4_AsStated ==
    InstrWritten =>
        /\ EnablePulses = 2
        /\ \A i \in 1..Len(log) : IsRS(log[i]) => log[i].arg = <<"Low">>
        /\ Len(BusWrites) = 2
        /\ BusWrites[1].arg = LevelsOf(deliverable.datum % 16)
        /\ BusWrites[2].arg = LevelsOf(deliverable.datum \div 16)

\* C4 amended: a successful write() of an instruction issues four enable pulses
\* in the whole call, two in its status poll and exactly two after its first bus
\* write; every register-select operation of the call drives the line low, so
\* the line is low from the first operation of the call until it returns; the
\* nibbles are written low then high (0x1 then 0x0 for clear display).
C4_InstrWrite ==
    (call = "write" /\ deliverable.kind = "Instr") =>
        /\ \A i \in 1..Len(log) : IsRS(log[i]) => log[i].arg = <<"Low">>
        /\ (raised = NoRaise /\ log # <<>>) => register_selection = "Low"
        /\ (pc = "returned" /\ result.tag = "Ok") =>
              /\ EnablePulses = 4
              /\ Len(SelectSeq(SubSeq(log, 1, FirstBusWrite), IsEnableHigh)) = 2
              /\ Len(SelectSeq(SubSeq(log, FirstBusWrite, Len(log)), IsEnableHigh)) = 2
              /\ Len(BusWrites) = 2
              /\ BusWrites[1].arg = LevelsOf(deliverable.datum % 16)
              /\ BusWrites[2].arg = LevelsOf(deliverable.datum \div 16)
              /\ deliverable.datum = Clear_compile =>
                    /\ BusWrites[1].arg = <<"High", "Low", "Low", "Low">>
                    /\ BusWrites[2].arg = <<"Low", "Low", "Low", "Low">>

\* clear display has been written, with register-select high before the call
C4_Witness ==
    /\ InstrWritten
    /\ deliverable = Instr(Clear_compile)
    /\ entry[1] = "High"
    /\ EnablePulses = 4

(* ---------------------------------------------------------------------- *)
(* C5                                                                       *)
(* ---------------------------------------------------------------------- *)

\* a write() has returned after a set operation on the enable line failed
EnableFailedInWrite == WriteReturned /\ raised.line = "enable"

\* enable pulses of the call that ran to their end
CompletedPulses == Len(SelectSeq(log, IsEnableLowOk))

\* C5 as stated: a write() in which a set operation on the enable line fails
\* returns the enable-line error, and no bus write has been performed in the
\* call before the failure.
C5_AsStated ==
    EnableFailedInWrite =>
        /\ result = Res("Other", "EnableError", raised.val)
        /\ BusWrites = <<>>

\* C5 amended: a write() in which a set operation on the enable line fails
\* returns the enable-line error and performs no operation after the failure,
\* so no bus write follows it.  Bus writes may precede it: none when the
\* failing pulse is one of the status poll's, the low nibble when it is the
\* first pulse of the data phase, both nibbles when it is the second.
C5_EnableFailure ==
    EnableFailedInWrite =>
        /\ result = Res("Other", "EnableError", raised.val)
        /\ log[Len(log)].op = "enable"
        /\ ~log[Len(log)].ok
        /\ \A i \in 1..(Len(log) - 1) : log[i].ok
        /\ CompletedPulses \in 0..3
        /\ Len(BusWrites) = IF CompletedPulses <= 1 THEN 0 ELSE CompletedPulses - 1

\* the enable line failed in the pulse that follows the low nibble
C5_Witness ==
    /\ EnableFailedInWrite
    /\ CompletedPulses = 2
    /\ Len(BusWrites) = 1
    /\ result.line = "EnableError"

(* ---------------------------------------------------------------------- *)
(* C6                                                                       *)
(* ---------------------------------------------------------------------- *)

PulseReturned == pc = "pulse_ret"

\* C6 as stated: every pulse_enable invocation, whatever it returns, ends
\* with the enable line low.
C6_AsStated == PulseReturned => enable = "Low"

\* C6 amended: every pulse_enable invocation that returns success ends with
\* the enable line low, having driven it high and then low; an invocation that
\* returns an error stopped at the failed set operation (set_low is not
\* attempted after a failed set_high) and may leave the line high.
C6_PulseEndsLow ==
    PulseReturned =>
        /\ pulse_res.tag = "Ok" =>
              /\ enable = "Low"
              /\ Len(LineOps) >= 2
              /\ SubSeq(LineOps, Len(LineOps) - 1, Len(LineOps)) = PulseOps
        /\ pulse_res.tag # "Ok" =>
              /\ pulse_res = Res("Err", "", raised.val)
              /\ log[Len(log)].op = "enable"
              /\ ~log[Len(log)].ok

\* the first pulse of a status poll has returned success
C6_Witness ==
    /\ PulseReturned
    /\ pulse_res.tag = "Ok"
    /\ site = "state1"
    /\ enable = "Low"

(* ---------------------------------------------------------------------- *)
(* C7                                                                       *)
(* ---------------------------------------------------------------------- *)

\* the line an operation of the log belongs to
LineOf(o) == IF o.op \in {"read_pins_now", "write_pins_now"} THEN "data_bus" ELSE o.op

\* C7: once a pin or bus operation of a state() or write() call fails, the
\* failed operation is the last one the call performs, and the call returns an
\* error whose variant names the failed line and whose value is the error the
\* operation raised: a LcdError from state(), nb::Error::Other of it from
\* write(), never a Status and never the not-ready result.
C7_FailureSurfaces ==
    /\ \A i \in 1..Len(log) : ~log[i].ok => (i = Len(log) /\ raised # NoRaise)
    /\ raised # NoRaise =>
          /\ log # <<>>
          /\ ~log[Len(log)].ok
          /\ LineOf(log[Len(log)]) = raised.line
          /\ raised.val \in ErrVals
          /\ pc \in {"pulse_ret", "state_ret", "returned"}
          /\ pc = "pulse_ret" => pulse_res = Res("Err", "", raised.val)
          /\ pc = "state_ret" => state_res = Res("Err", VariantOf(raised.line), raised.val)
          /\ pc = "returned" =>
                result = Res(IF call = "state" THEN "Err" ELSE "Other",
                             VariantOf(raised.line), raised.val)

\* a write() has returned the read/write error raised in its status poll
C7_Witness ==
    /\ WriteReturned
    /\ raised = Raise("read_write", MaxErr)
    /\ result = Res("Other", "ReadWriteError", MaxErr)
    /\ Len(log) = 2

(* ---------------------------------------------------------------------- *)
(* C8                                                                       *)
(* ---------------------------------------------------------------------- *)

StatusAssembled == pc = "state_ret" /\ state_res.tag = "Ok"

\* C8: state() returns the status whose value is lower + 16 * upper, where
\* lower and upper are the numbers spelled by the first and the second bus
\* read; its busy flag is the level of line 3 of the second read.
C8_StatusValue ==
    /\ StatusAssembled =>
          /\ state_res.val = ValueOf(lower_bits) + 16 * ValueOf(upper_bits)
          /\ busy(state_res.val) <=> upper_bits[4] = "High"
    /\ (pc = "returned" /\ call = "state" /\ result.tag = "Ok") =>
          result.val = ValueOf(lower_bits) + 16 * ValueOf(upper_bits)

\* state() has returned 0x2D from the reads 0xD and 0x2
C8_Witness ==
    /\ pc = "returned"
    /\ call = "state"
    /\ result = Ok(45)
    /\ lower_bits = <<"High", "Low", "High", "High">>
    /\ upper_bits = <<"Low", "High", "Low", "Low">>

(* ---------------------------------------------------------------------- *)
(* C9                                                                       *)
(* ---------------------------------------------------------------------- *)

\* C9: decoding a status value v yields busy = (v >= 0x80) and the address
\* v with bit 7 removed; 0xAA decodes to busy with address 0x2A.
C9_Decode ==
    decoded.set =>
        /\ result.val \in Byte
        /\ decoded.busy <=> result.val >= 128
        /\ decoded.addr = (IF result.val >= 128 THEN result.val - 128 ELSE result.val)
        /\ result.val = 170 => (decoded.busy /\ decoded.addr = 42)

\* the status 0xAA has been decoded
C9_Witness ==
    /\ decoded.set
    /\ result.val = 170
    /\ decoded.busy
    /\ decoded.addr = 42

(* ---------------------------------------------------------------------- *)
(* C10                                                                      *)
(* ---------------------------------------------------------------------- *)

\* C10: the two 4-level sequences a successful write() of byte b drove onto
\* the bus, assembled the way state() assembles its two bus reads, give b.
C10_RoundTrip ==
    (WriteReturned /\ result.tag = "Ok") =>
        /\ Len(BusWrites) = 2
        /\ assemble(BusWrites[1].arg, BusWrites[2].arg) = deliverable.datum

\* a byte that is not its own bit reversal or nibble swap has been written
C10_Witness ==
    /\ WriteReturned
    /\ result.tag = "Ok"
    /\ deliverable = Data(180)
    /\ assemble(BusWrites[1].arg, BusWrites[2].arg) = 180

(* ---------------------------------------------------------------------- *)
(* Vocabulary of the byte-stream properties                                 *)
(* ---------------------------------------------------------------------- *)

RECURSIVE NibblesOf(_)
\* the bus writes that deliver the bytes bs in order, low nibble first
NibblesOf(bs) ==
    IF bs = <<>> THEN <<>>
    ELSE <<LevelsOf(Head(bs) % 16), LevelsOf(Head(bs) \div 16)>> \o NibblesOf(Tail(bs))

InWriteStr == adapter = "write_str" /\ pc # "uret"

WriteStrReturned == adapter = "write_str" /\ pc = "uret"

\* write() has returned to nb::block! inside write_str
WriteStrGotResult == adapter = "write_str" /\ pc = "returned"

(* ---------------------------------------------------------------------- *)
(* C11                                                                      *)
(* ---------------------------------------------------------------------- *)

\* while write_str delivers byte idx, the bytes before it are on the wire, each
\* as its two nibbles, and the write() in progress is for byte idx
C11_InOrder ==
    /\ (InWriteStr /\ pc # "returned") =>
          /\ idx \in 1..Len(str)
          /\ call = "write"
          /\ deliverable = Data(str[idx])
          /\ wire = NibblesOf(SubSeq(str, 1, idx - 1))
    /\ (WriteStrReturned /\ uresult.tag = "Ok") =>
          /\ uresult = Ok(0)
          /\ wire = NibblesOf(str)
          /\ Len(wire) = 2 * Len(str)

\* a not-ready write() is called again for the same byte; the byte after it is
\* started by the step that receives the success of the write() before it
C11_Steps ==
    /\ (WriteStrGotResult /\ result = WouldBlock) =>
          /\ pc' = "state_rs"
          /\ call' = "write"
          /\ idx' = idx
          /\ deliverable' = Data(str[idx])
          /\ wire' = wire
    /\ (adapter = "write_str" /\ adapter' = "write_str" /\ idx' # idx) =>
          /\ WriteStrGotResult
          /\ result = Ok(0)
          /\ idx' = idx + 1
          /\ pc' = "state_rs"
          /\ deliverable' = Data(str[idx + 1])
    /\ (WriteStrGotResult /\ pc' = "uret" /\ uresult'.tag = "Ok") =>
          /\ result = Ok(0)
          /\ idx = Len(str)

\* C11: write_str delivers the bytes in order: it repeats write(Data(byte))
\* while the result is not-ready, starts the write() of byte k+1 only after a
\* write() of byte k returned success, and when it returns success every byte
\* has been written exactly once, as two bus writes, in sequence order.
C11_WriteStrInOrder == []C11_InOrder /\ [][C11_Steps]_vars

\* write_str("AZ") has returned success
C11_Witness ==
    /\ WriteStrReturned
    /\ uresult = Ok(0)
    /\ str = <<65, 90>>
    /\ wire = <<LevelsOf(1), LevelsOf(4), LevelsOf(10), LevelsOf(5)>>

(* ---------------------------------------------------------------------- *)
(* C12                                                                      *)
(* ---------------------------------------------------------------------- *)

WriteCharReturned == adapter = "write_char" /\ pc = "uret"

\* C12: write_char blocks until the byte is accepted: it never returns the
\* not-ready result to its caller.
C12_WriteCharBlocks == WriteCharReturned => uresult # WouldBlock

(* ---------------------------------------------------------------------- *)
(* C13                                                                      *)
(* ---------------------------------------------------------------------- *)

\* the state() or write() call before this one returned an error or not-ready
AfterFailedCall == prev \in {"error", "would_block"}

\* write() is at the step that receives a status whose busy flag is clear
PolledFree ==
    /\ pc = "state_ret"
    /\ call = "write"
    /\ state_res.tag = "Ok"
    /\ upper_bits[4] = "Low"

\* a write() after a failed call, finding no failure and no busy flag, has
\* returned success after the full transfer
C13_FullTransfer ==
    (WriteReturned /\ AfterFailedCall /\ raised = NoRaise /\ result # WouldBlock) =>
        /\ result = Ok(0)
        /\ LineOps = PollOps
                     \o <<Op("register_selection", <<ExpectedRS>>, TRUE)>>
                     \o DataPhaseOps(deliverable.datum)

\* C13: after any state() or write() call that returned an error or the
\* not-ready result, whatever levels it left on the lines, a following write()
\* in which no line fails and the controller is not busy goes on to the data
\* phase, performs the full transfer and returns success.
C13_CallableAgain ==
    /\ []C13_FullTransfer
    /\ [][(PolledFree /\ AfterFailedCall) => (pc' = "write_rs" /\ log' = log)]_vars

\* a write() has returned success after a call that returned an error and left
\* register-select high and read/write low
C13_Witness ==
    /\ WriteReturned
    /\ adapter = "none"
    /\ prev = "error"
    /\ entry = <<"High", "Low">>
    /\ result = Ok(0)

(* ---------------------------------------------------------------------- *)
(* C14                                                                      *)
(* ---------------------------------------------------------------------- *)

IsBusRead(o) == o.op = "read_pins_now"

IsPollStart(o) == o.op = "read_write" /\ o.arg = <<"High">>

\* one status poll, at most two bus reads, two bus writes and four pulses in
\* a write() call, which returns success, not-ready or an error
C14_Bounded ==
    call = "write" =>
        /\ Len(SelectSeq(log, IsPollStart)) <= 1
        /\ Len(SelectSeq(log, IsBusRead)) <= 2
        /\ Len(BusWrites) <= 2
        /\ EnablePulses <= 4
        /\ log # <<>> => log[1].op = "register_selection" /\ log[1].arg = <<"Low">>
        /\ \A i \in 2..Len(log) :
              (IsRS(log[i]) /\ log[i].arg = <<"Low">>) => deliverable.kind = "Instr"
        /\ pc = "returned" => result.tag \in {"Ok", "WouldBlock", "Other"}

WriteCalled == call = "write" /\ pc = "state_rs"

\* C14: write() never loops internally: a write() call performs one status
\* poll (at most two bus reads), at most two bus writes and four enable pulses,
\* and returns; a call whose poll reports busy returns not-ready.
C14_WriteReturns ==
    /\ []C14_Bounded
    /\ WriteCalled ~> (pc = "returned")
    /\ PolledBusy ~> (pc = "returned" /\ result = WouldBlock)

\* a write() has returned not-ready after one poll, and it is a retry of
\* write_str after an earlier not-ready
C14_Witness ==
    /\ WriteStrGotResult
    /\ result = WouldBlock
    /\ prev = "would_block"
    /\ Len(SelectSeq(log, IsBusRead)) = 2
    /\ EnablePulses = 2

(* ---------------------------------------------------------------------- *)
(* C15                                                                      *)
(* ---------------------------------------------------------------------- *)

\* an enable pulse with its two delays
PulseWithDelays ==
    <<Op("enable", <<"High">>, TRUE), DelayOp, Op("enable", <<"Low">>, TRUE), DelayOp>>

\* C15: a state() call in which no line fails performs exactly: register-select
\* low, read/write high, enable high, enable low, bus read, enable high, enable
\* low, bus read; it performs no bus write, and each bus read comes after the
\* whole pulse before it, delays included.
C15_StateSequence ==
    /\ StatusAssembled =>
          /\ log = <<Op("register_selection", <<"Low">>, TRUE),
                     Op("read_write", <<"High">>, TRUE)>>
                   \o PulseWithDelays \o <<Op("read_pins_now", <<>>, TRUE)>>
                   \o PulseWithDelays \o <<Op("read_pins_now", <<>>, TRUE)>>
          /\ BusWrites = <<>>
    /\ (pc = "returned" /\ call = "state" /\ raised = NoRaise) =>
          /\ result.tag = "Ok"
          /\ LineOps = PollOps
          /\ BusWrites = <<>>
    /\ pc \in {"state_read1", "state_read2"} =>
          /\ Len(log) >= 4
          /\ SubSeq(log, Len(log) - 3, Len(log)) = PulseWithDelays

\* state() has returned a status after its eight operations
C15_Witness ==
    /\ pc = "returned"
    /\ call = "state"
    /\ result.tag = "Ok"
    /\ Len(LineOps) = 8
    /\ entry = <<"High", "Low">>

(* ---------------------------------------------------------------------- *)
(* C16                                                                      *)
(* ---------------------------------------------------------------------- *)

PulsesAfterFirstBusWrite ==
    Len(SelectSeq(SubSeq(log, FirstBusWrite, Len(log)), IsEnableHigh))

\* C16: once a write() call has performed its first bus write it performs no
\* bus read and no operation on register-select or read/write any more, and it
\* ends either in success after both bus writes, each followed by its pulse, or
\* in the error of a failed line; never in the not-ready result.
C16_NoWayBack ==
    (call = "write" /\ BusWriteAt # {}) =>
        /\ \A i \in (FirstBusWrite + 1)..Len(log) :
              log[i].op \in {"write_pins_now", "enable", "delay_us"}
        /\ result # WouldBlock
        /\ pc \in {"pulse_high", "pulse_low", "pulse_ret", "write_bus2", "returned", "uret"}
        /\ pc \in {"returned", "uret"} =>
              \/ /\ result = Ok(0)
                 /\ raised = NoRaise
                 /\ Len(BusWrites) = 2
                 /\ PulsesAfterFirstBusWrite = 2
                 /\ log[Len(log) - 1] = Op("enable", <<"Low">>, TRUE)
              \/ /\ result.tag = "Other"
                 /\ raised # NoRaise
                 /\ ~log[Len(log)].ok

\* a write() has ended in a bus error at its second bus write
C16_Witness ==
    /\ WriteReturned
    /\ Len(BusWrites) = 2
    /\ result.tag = "Other"
    /\ result.line = "DataBusError"
    /\ PulsesAfterFirstBusWrite = 1

(* ---------------------------------------------------------------------- *)
(* C17                                                                      *)
(* ---------------------------------------------------------------------- *)

\* a status poll has just reported not busy
FreePoll == StatusAssembled /\ upper_bits[4] = "Low"

\* some status poll of the uWrite method in progress has reported not busy
FreeSoFar == free \/ free_poll_in(log) \/ FreePoll

WriteStrOk == WriteStrReturned /\ uresult = Ok(0)

\* with no failure and no poll that said not busy, write_str has not returned
\* and has put nothing on the bus
C17_StuckWhileBusy ==
    (adapter = "write_str" /\ raised = NoRaise /\ ~FreeSoFar) =>
        /\ pc # "uret"
        /\ wire = <<>>
        /\ BusWrites = <<>>

\* the same for the strings that have a byte to deliver
C17_StuckWhileBusyNonEmpty ==
    (adapter = "write_str" /\ str # <<>> /\ raised = NoRaise /\ ~FreeSoFar) =>
        /\ pc # "uret"
        /\ idx = 1
        /\ wire = <<>>
        /\ BusWrites = <<>>

\* if no operation ever fails and polls say not busy again and again, a
\* write_str that was called returns success
C17_ReturnsWhenFair ==
    ([](raised = NoRaise) /\ []<>FreePoll) => (adapter = "write_str" ~> WriteStrOk)

\* C17 as stated: for every finite byte sequence, with no failure and a fair
\* controller write_str eventually returns success, and while every poll
\* reports busy write_str does not return and performs no bus write.
C17_AsStated == C17_ReturnsWhenFair /\ []C17_StuckWhileBusy

\* C17 amended: for every finite byte sequence, with no failure and a fair
\* controller write_str eventually returns success; for every non-empty byte
\* sequence, while no operation fails and every poll reports busy, write_str
\* does not return and performs no bus write.  write_str of the empty sequence
\* returns success at once without polling.
C17_WriteStrTerminates == C17_ReturnsWhenFair /\ []C17_StuckWhileBusyNonEmpty

\* write_str("AZ") is polling for its first byte after a busy poll, nothing on
\* the bus yet
C17_Witness ==
    /\ InWriteStr
    /\ str = <<65, 90>>
    /\ prev = "would_block"
    /\ ~FreeSoFar
    /\ pc = "state_read2"
    /\ wire = <<>>

(* ---------------------------------------------------------------------- *)
(* C18                                                                      *)
(* ---------------------------------------------------------------------- *)

IsPrefix(a, b) == Len(a) <= Len(b) /\ a = SubSeq(b, 1, Len(a))

\* write_str has returned an error: it is the error of the line that failed
\* while byte idx was delivered, the bytes before it are on the wire in full,
\* and nothing of a later byte is
C18_StoppedAtFailure ==
    (WriteStrReturned /\ uresult.tag # "Ok") =>
        /\ raised # NoRaise
        /\ uresult = Res("Other", VariantOf(raised.line), raised.val)
        /\ ~log[Len(log)].ok
        /\ idx \in 1..Len(str)
        /\ deliverable = Data(str[idx])
        /\ Len(wire) <= 2 * idx
        /\ Len(wire) >= 2 * (idx - 1)
        /\ IsPrefix(wire, NibblesOf(SubSeq(str, 1, idx)))

\* the step of write_str that receives an error returns it: no retry, no
\* operation on any line
C18_ReturnsAtOnce ==
    (WriteStrGotResult /\ result.tag = "Other") =>
        /\ pc' = "uret"
        /\ uresult' = result
        /\ log' = log
        /\ idx' = idx
        /\ UNCHANGED <<register_selection, read_write, enable>>

\* C18: when a pin or bus operation fails while write_str delivers byte k,
\* write_str stops at once and returns that line's error: byte k is not tried
\* again, no operation is performed for a later byte, and every byte before k
\* has been written in full, both nibbles, in order.
C18_WriteStrFailure == []C18_StoppedAtFailure /\ [][C18_ReturnsAtOnce]_vars

\* write_str("AZ") has returned the enable error raised after the low nibble
\* of its second byte
C18_Witness ==
    /\ WriteStrReturned
    /\ str = <<65, 90>>
    /\ idx = 2
    /\ uresult.line = "EnableError"
    /\ wire = <<LevelsOf(1), LevelsOf(4), LevelsOf(10)>>

(* ---------------------------------------------------------------------- *)
(* C19                                                                      *)
(* ---------------------------------------------------------------------- *)

\* positions before i of the successful set operations on a line
DrivenBefore(line, i) == {j \in 1..(i - 1) : log[j].op = line /\ log[j].ok}

\* the last level successfully driven on a line before position i
LastDriven(line, i) ==
    LET d == DrivenBefore(line, i)
    IN  IF d = {} THEN "unknown"
        ELSE log[CHOOSE j \in d : \A k \in d : k <= j].arg[1]

\* C19: every bus write happens while the last level successfully driven on
\* read/write is low, and every bus read while the last level successfully
\* driven on read/write is high and on register-select low; the lines carry
\* those levels at the moment of the access.
C19_BusDirection ==
    /\ \A i \in 1..Len(log) :
          /\ IsBusWrite(log[i]) => LastDriven("read_write", i) = "Low"
          /\ IsBusRead(log[i]) =>
                /\ LastDriven("read_write", i) = "High"
                /\ LastDriven("register_selection", i) = "Low"
    /\ pc \in {"write_bus1", "write_bus2"} =>
          /\ LastDriven("read_write", Len(log) + 1) = "Low"
          /\ read_write = "Low"
    /\ pc \in {"state_read1", "state_read2"} =>
          /\ LastDriven("read_write", Len(log) + 1) = "High"
          /\ LastDriven("register_selection", Len(log) + 1) = "Low"
          /\ read_write = "High"
          /\ register_selection = "Low"

\* the second byte of a write_str is about to go on the bus, the call before
\* having ended not-ready with read/write high
C19_Witness ==
    /\ pc = "write_bus1"
    /\ adapter = "write_str"
    /\ idx = 2
    /\ entry = <<"Low", "High">>
    /\ read_write = "Low"

(* ---------------------------------------------------------------------- *)
(* C20                                                                      *)
(* ---------------------------------------------------------------------- *)

\* the engine is about to read or write the bus
AtBusAccess == pc \in {"state_read1", "state_read2", "write_bus1", "write_bus2"}

Accepted(r) == r.tag \in {"Ok", "WouldBlock"}

\* enable is low at every bus access and after every state() and write()
\* that returns success or not-ready
C20_EngineCalls ==
    /\ AtBusAccess => enable = "Low"
    /\ (pc = "returned" /\ Accepted(result)) => enable = "Low"

\* C20 as stated: at every bus read and bus write the enable line is low, and
\* after every call (state, write, write_char, write_str) that returns success
\* or not-ready the enable line is low.
C20_AsStated ==
    /\ C20_EngineCalls
    /\ (pc = "uret" /\ Accepted(uresult)) => enable = "Low"

\* C20 amended: at every bus read and bus write the enable line is low, and
\* after every call that returns success or not-ready and has polled the status
\* at least once (every state(), write() and write_char(), and write_str of a
\* non-empty sequence) the enable line is low.  write_str of the empty sequence
\* performs no operation and leaves enable as it found it.
C20_EnableLow ==
    /\ C20_EngineCalls
    /\ (pc = "uret" /\ Accepted(uresult) /\ str # <<>>) => enable = "Low"
    /\ (pc = "uret" /\ str = <<>>) => (uresult = Ok(0) /\ log = <<>>)

\* a bus write is about to happen with enable low in a call that follows a
\* failed one
C20_Witness ==
    /\ pc = "write_bus2"
    /\ prev = "error"
    /\ enable = "Low"
    /\ EnablePulses = 3

====
